---- MODULE Spec2Model ----
(***************************************************************************)
(* A model of the Latin scansion pipeline of scan_latin_class.py           *)
(* (class Scansion; autoscan.py's KirbyScanner is the same algorithm):     *)
(*   make_syllables -> qu_fix -> elision_fixer -> syllable_condenser ->    *)
(*   scansion.                                                             *)
(*                                                                         *)
(* A Python string is modelled as a sequence of one-character strings, so  *)
(* that it can be indexed and sliced as the code does.  The macron vowels  *)
(* of the code's long_vowels table are written as the capitals "A", "E",   *)
(* "I", "O", "U": the pipeline receives lower-cased text, so a capital     *)
(* never stands for anything else.                                         *)
(***************************************************************************)
EXTENDS Integers, Sequences, FiniteSets, TLC

VARIABLES
    tokens,     \* the tokenized text: sentences of words (the argument of syllabify)
    pc,         \* how far scan_text has come
    sylls,      \* the [sentence [word [syllable]]] lists, mutated in place by the stages
    si,         \* elision_fixer: position of `sent` in sent_syllables
    wi,         \* elision_fixer: position of `word` in sent
    compared,   \* elision_fixer: per sentence, the (word, next_word) positions compared at line 194
    condensed,  \* the [sentence [syllable]] lists syllable_condenser returns
    out,        \* the list of symbol strings scansion returns
    returned    \* what the earlier calls on the same tokens returned, oldest first

vars == <<tokens, pc, sylls, si, wi, compared, condensed, out, returned>>

----------------------------------------------------------------------------
(* Bounds of the model *)

\* longest word of the word-level specification
MaxLen == 5
\* most words in a text of the sentence-level specification
MaxWords == 3
\* most sentences in a text
MaxSents == 2

----------------------------------------------------------------------------
(* The character tables of Scansion.__init__ *)

vowels == {"a", "e", "i", "o", "u"}

sing_cons == {"b", "c", "d", "f", "g", "j", "k", "l", "m", "n", "p", "q", "r",
              "s", "t", "v", "w", "x", "z"}

doub_cons == {"x", "z"}

long_vowels == {"A", "E", "I", "O", "U"}

diphthongs == {<<"a", "e">>, <<"a", "u">>, <<"e", "u">>, <<"e", "i">>,
               <<"o", "e">>, <<"u", "i">>, <<"u", "I">>}

stops == {"t", "p", "d", "k", "b"}

liquids == {"r", "l"}

----------------------------------------------------------------------------
(* Python list and string helpers *)

\* ''.join(list): the concatenation of a list of strings
RECURSIVE Join(_)
Join(list) ==
    IF list = <<>> THEN <<>> ELSE Head(list) \o Join(Tail(list))

\* list.index(x): the first position holding a value equal to x (0: none)
index(list, x) ==
    IF \E k \in 1..Len(list) : list[k] = x
    THEN CHOOSE k \in 1..Len(list) :
             list[k] = x /\ \A j \in 1..(k - 1) : list[j] # x
    ELSE 0

\* 'qu' in syllable
HasQu(syllable) ==
    \E k \in 1..(Len(syllable) - 1) : syllable[k] = "q" /\ syllable[k + 1] = "u"

Front(list) == SubSeq(list, 1, Len(list) - 1)

Last(list) == list[Len(list)]

----------------------------------------------------------------------------
(* make_syllables *)

\* ScanWord with `or (letter in self.long_vowels)` left out of line 100
RECURSIVE ScanWordPlainVowels(_, _, _, _)
ScanWordPlainVowels(word, cur_letter_in, syll_start, syll_per_word) ==
    IF cur_letter_in > Len(word) THEN syll_per_word
    ELSE IF cur_letter_in # Len(word)
            /\ <<word[cur_letter_in], word[cur_letter_in + 1]>> \in diphthongs
    THEN ScanWordPlainVowels(word, cur_letter_in + 2, cur_letter_in + 2,
                  Append(syll_per_word, SubSeq(word, syll_start, cur_letter_in + 1)))
    ELSE IF word[cur_letter_in] \in vowels
    THEN ScanWordPlainVowels(word, cur_letter_in + 1, cur_letter_in + 1,
                  Append(syll_per_word, SubSeq(word, syll_start, cur_letter_in)))
    ELSE ScanWordPlainVowels(word, cur_letter_in + 1, syll_start, syll_per_word)

\* the while loop of lines 94-103; positions are 1-based here
RECURSIVE ScanWord(_, _, _, _)
ScanWord(word, cur_letter_in, syll_start, syll_per_word) ==
    IF cur_letter_in > Len(word) THEN syll_per_word
    ELSE IF cur_letter_in # Len(word)
            /\ <<word[cur_letter_in], word[cur_letter_in + 1]>> \in diphthongs
    THEN ScanWord(word, cur_letter_in + 2, cur_letter_in + 2,
                  Append(syll_per_word, SubSeq(word, syll_start, cur_letter_in + 1)))
    ELSE IF word[cur_letter_in] \in vowels \/ word[cur_letter_in] \in long_vowels
    THEN ScanWord(word, cur_letter_in + 1, cur_letter_in + 1,
                  Append(syll_per_word, SubSeq(word, syll_start, cur_letter_in)))
    ELSE ScanWord(word, cur_letter_in + 1, syll_start, syll_per_word)

\* Leftovers with line 110 written `leftovers + word[cur_letter_in]`
RECURSIVE LeftoversReversed(_, _, _, _)
LeftoversReversed(word, cur_letter_in, last_vowel, leftovers) ==
    IF word[cur_letter_in] = last_vowel THEN leftovers
    ELSE LeftoversReversed(word, cur_letter_in - 1, last_vowel,
                   IF word[cur_letter_in] # "."
                   THEN leftovers \o <<word[cur_letter_in]>>
                   ELSE leftovers)

\* the while loop of lines 108-111, walking back from the end of the word.
\* Position 0 is never read: last_vowel is a character of the word.
RECURSIVE Leftovers(_, _, _, _)
Leftovers(word, cur_letter_in, last_vowel, leftovers) ==
    IF word[cur_letter_in] = last_vowel THEN leftovers
    ELSE Leftovers(word, cur_letter_in - 1, last_vowel,
                   IF word[cur_letter_in] # "."
                   THEN <<word[cur_letter_in]>> \o leftovers
                   ELSE leftovers)

\* syll_per_word[-1] raises IndexError at line 104 when no syllable was closed
WordRaises(word) == ScanWord(word, 1, 1, <<>>) = <<>>

\* the body of `for word in sentence`, lines 91-113
SyllabifyWord(word) ==
    LET syll_per_word == ScanWord(word, 1, 1, <<>>)
        last_vowel == Last(Last(syll_per_word))
    IN  [syll_per_word EXCEPT ![Len(syll_per_word)] =
            @ \o Leftovers(word, Len(word), last_vowel, <<>>)]

\* make_syllables raises when any word of the text does
TextRaises(text) ==
    \E s \in 1..Len(text) : \E w \in 1..Len(text[s]) : WordRaises(text[s][w])

\* make_syllables handing back the lists an earlier call built and the later
\* stages mutated
make_syllables_cached(sents_words) ==
    IF sylls # <<>> THEN sylls
    ELSE [s \in 1..Len(sents_words) |->
             [w \in 1..Len(sents_words[s]) |-> SyllabifyWord(sents_words[s][w])]]

make_syllables(sents_words) ==
    [s \in 1..Len(sents_words) |->
        [w \in 1..Len(sents_words[s]) |-> SyllabifyWord(sents_words[s][w])]]

----------------------------------------------------------------------------
(* qu_fix *)

Min(a, b) == IF a < b THEN a ELSE b

\* QuFixWord looking at the merged syllable again before it moves on
RECURSIVE QuFixWordAgain(_, _)
QuFixWordAgain(word, i) ==
    IF i >= Len(word) THEN word
    ELSE IF HasQu(word[i])
    THEN QuFixWordAgain(SubSeq(word, 1, i - 1) \o <<word[i] \o word[i + 1]>>
                            \o SubSeq(word, i + 2, Len(word)),
                        i)
    ELSE QuFixWordAgain(word, i + 1)

\* `for syllable in word` (lines 129-134): the list iterator reads word[i] for
\* i = 1, 2, ... while i is within the list as it is at that moment
RECURSIVE QuFixWord(_, _)
QuFixWord(word, i) ==
    IF i > Len(word) THEN word
    ELSE IF HasQu(word[i])
    THEN LET qu_syll_index == index(word, word[i])
             next_syll == qu_syll_index + 1
             fixed_syllable ==
                 <<Join(SubSeq(word, qu_syll_index, Min(next_syll, Len(word))))>>
         IN  QuFixWord(SubSeq(word, 1, qu_syll_index - 1) \o fixed_syllable
                           \o SubSeq(word, next_syll + 1, Len(word)),
                       i + 1)
    ELSE QuFixWord(word, i + 1)

qu_fix(sents_syllables) ==
    [s \in 1..Len(sents_syllables) |->
        [w \in 1..Len(sents_syllables[s]) |-> QuFixWord(sents_syllables[s][w], 1)]]

----------------------------------------------------------------------------
(* elidable_end, elidable_begin: "True", "False", or "IndexError" when a
   subscript of the code is out of range *)

elidable_end(word) ==
    IF word = <<>> THEN "IndexError"                        \* word[-1]
    ELSE LET syll == Last(word) IN
         IF syll # <<>> /\ Last(syll) = "m" THEN "True"     \* endswith('m')
         ELSE IF syll = <<>> THEN "IndexError"              \* word[-1][-1]
         ELSE IF Last(syll) \in long_vowels THEN "True"
         ELSE IF Last(syll) \in vowels THEN "True"
         ELSE IF Len(syll) < 2 THEN "IndexError"            \* word[-1][-2]
         ELSE IF <<syll[Len(syll) - 1], Last(syll)>> \in diphthongs THEN "True"
         ELSE "False"

elidable_begin(word) ==
    IF word = <<>> THEN "IndexError"                        \* word[0]
    ELSE LET syll == word[1] IN
         IF syll # <<>> /\ syll[1] = "h" THEN "True"        \* startswith('h')
         ELSE IF syll = <<>> THEN "IndexError"              \* word[0][0]
         ELSE IF syll[1] \in long_vowels THEN "True"
         ELSE IF syll[1] \in vowels THEN "True"
         ELSE IF <<syll[1], Last(syll)>> \in diphthongs THEN "True"
         ELSE "False"

----------------------------------------------------------------------------
(* elision_fixer: one visit of `for word in sent`, lines 191-200 *)

\* the position the code takes next_word from: sent.index(word) + 1
NextWordIndex(sent, i) == index(sent, sent[i]) + 1

\* does the try block raise IndexError (and the loop break)?
ElideRaises(sent, i) ==
    LET n == NextWordIndex(sent, i) IN
    \/ n > Len(sent)                                        \* sent[... + 1]
    \/ elidable_end(sent[i]) = "IndexError"
    \/ /\ elidable_end(sent[i]) = "True"
       /\ elidable_begin(sent[n]) = "IndexError"

\* is the condition of line 194 evaluated (a comparison made)?
ElideCompares(sent, i) == NextWordIndex(sent, i) <= Len(sent)

\* does the visit merge (lines 195-196)?
ElideMerges(sent, i) ==
    LET n == NextWordIndex(sent, i) IN
    /\ n <= Len(sent)
    /\ elidable_end(sent[i]) = "True"
    /\ elidable_begin(sent[n]) = "True"

\* ElideMerge with line 195 written next_word[0] + word[-1]
ElideMergeAppended(sent, i) ==
    LET n == index(sent, sent[i]) + 1
        added == [sent EXCEPT ![n] = [@ EXCEPT ![1] = @ \o Last(sent[i])]]
    IN  [added EXCEPT ![i] = Front(@)]

\* lines 195-196: next_word[0] = word[-1] + next_word[0], then word.pop(-1);
\* word and next_word may be the same list
ElideMerge(sent, i) ==
    LET n == NextWordIndex(sent, i)
        added == [sent EXCEPT ![n] = [@ EXCEPT ![1] = Last(sent[i]) \o @]]
    IN  [added EXCEPT ![i] = Front(@)]

\* lines 191-200 for one sentence: the visits from word i on, up to the break
\* or the end of the sentence
RECURSIVE ElideSentence(_, _)
ElideSentence(sent, i) ==
    IF i > Len(sent) THEN sent
    ELSE IF ElideRaises(sent, i) THEN sent
    ELSE ElideSentence(IF ElideMerges(sent, i) THEN ElideMerge(sent, i) ELSE sent,
                       i + 1)

----------------------------------------------------------------------------
(* syllable_condenser *)

syllable_condenser(words_syllables) ==
    [s \in 1..Len(words_syllables) |-> Join(words_syllables[s])]

----------------------------------------------------------------------------
(* long_by_nature, long_by_position, scansion *)

\* long_by_nature looking for a long vowel only at the end of the syllable
NatureOfEnding(syllable) ==
    \/ syllable # <<>> /\ Last(syllable) \in long_vowels
    \/ SelectSeq(syllable, LAMBDA c : c \notin sing_cons) \in diphthongs

\* the loop of lines 231-239; None is FALSE
RECURSIVE NatureLoop(_, _, _)
NatureLoop(syllable, k, vowel_group) ==
    IF k > Len(syllable) THEN vowel_group \in diphthongs
    ELSE IF syllable[k] \in long_vowels THEN TRUE
    ELSE IF syllable[k] \notin sing_cons
    THEN NatureLoop(syllable, k + 1, Append(vowel_group, syllable[k]))
    ELSE NatureLoop(syllable, k + 1, vowel_group)

long_by_nature(syllable) ==
    NatureLoop(syllable, 1, <<>>)

\* the position the code takes next_syll from: sentence.index(syllable) + 1
NextSyllIndex(syllable, sentence) == index(sentence, syllable) + 1

\* lines 257-267 for a given next_syll: the number of the case that returns
\* True, 0 when none applies or a subscript raises the IndexError of line 268
PositionCase(syllable, next_syll) ==
    IF next_syll = <<>> THEN 0                              \* next_syll[0]
    ELSE IF next_syll[1] \in sing_cons /\ Len(next_syll) < 2 THEN 0  \* next_syll[1]
    ELSE IF /\ next_syll[1] \in sing_cons /\ next_syll[2] \in sing_cons
            /\ next_syll[1] \notin stops /\ next_syll[2] \notin liquids
    THEN 1
    ELSE IF syllable = <<>> THEN 0                          \* syllable[-1]
    ELSE IF Last(syllable) \in vowels /\ next_syll[1] \in doub_cons THEN 2
    ELSE IF Last(syllable) \in sing_cons /\ next_syll[1] \in sing_cons THEN 3
    ELSE 0

\* lines 254-269: the case by which long_by_position returns True, 0 when it
\* returns None
PositionRule(syllable, sentence) ==
    LET n == NextSyllIndex(syllable, sentence) IN
    IF n > Len(sentence) THEN 0                             \* sentence[... + 1]
    ELSE PositionCase(syllable, sentence[n])

long_by_position(syllable, sentence) == PositionRule(syllable, sentence) # 0

\* ScanSentence emitting nothing for the syllable that has no successor
ScanSentenceNoLast(sentence) ==
    [i \in 1..(Len(sentence) - 1) |->
        IF long_by_position(sentence[i], sentence) \/ long_by_nature(sentence[i])
        THEN "-" ELSE "u"]

\* ScanSentence taking each syllable's successor by its place in the sentence
ScanSentenceByPlace(sentence) ==
    [i \in 1..Len(sentence) |->
        IF \/ i < Len(sentence) /\ PositionCase(sentence[i], sentence[i + 1]) # 0
           \/ long_by_nature(sentence[i])
        THEN "-" ELSE "u"]

\* lines 281-287: the symbols of one sentence
ScanSentence(sentence) ==
    [i \in 1..Len(sentence) |->
        IF long_by_position(sentence[i], sentence) \/ long_by_nature(sentence[i])
        THEN "-" ELSE "u"]

\* scansion looking each syllable up in the syllables of the whole text
scansion_flat(sentence_syllables) ==
    LET text == Join(sentence_syllables) IN
    [s \in 1..Len(sentence_syllables) |->
        [i \in 1..Len(sentence_syllables[s]) |->
            IF \/ long_by_position(sentence_syllables[s][i], text)
               \/ long_by_nature(sentence_syllables[s][i])
            THEN "-" ELSE "u"]]

scansion(sentence_syllables) ==
    [s \in 1..Len(sentence_syllables) |-> ScanSentence(sentence_syllables[s])]

----------------------------------------------------------------------------
(* The inputs *)

\* the words of the sentence-level specification
Lexicon == {
    <<"q", "u", "o">>,
    <<"u", "s", "q", "u", "e">>,
    <<"u", "i", "u">>,
    <<"i">>,
    <<"a", "s", "l", "a">>,
    <<"a", "s", "t", "a", "s">>,
    <<"a", "t", "r", "a">>,
    <<"n", "O", "s">>,
    <<"t", "a", "m">>,
    <<"a", "b", "U">>,
    <<"h", "a", "e">>,
    <<"s", "t">> }

\* the letters of the word-level specification
Letters == {"a", "e", "i", "u", "I", "q", "t", "h", "."}

\* the ways to cut n words into at most MaxSents sentences: the position of
\* each sentence's last word
Cuts(n) ==
    UNION {{c \in [1..k -> 0..n] :
               /\ k > 0 => c[k] = n
               /\ k = 0 => n = 0
               /\ \A j \in 1..(k - 1) : c[j] <= c[j + 1]} : k \in 0..MaxSents}

Split(ws, c) ==
    [j \in 1..Len(c) |-> SubSeq(ws, (IF j = 1 THEN 0 ELSE c[j - 1]) + 1, c[j])]

----------------------------------------------------------------------------
(* The pipeline: syllabify (lines 296-300) and scan_text (lines 304-307) *)

Start(text) ==
    /\ tokens = text
    /\ pc = "tokens"
    /\ sylls = <<>>
    /\ si = 0
    /\ wi = 0
    /\ compared = <<>>
    /\ condensed = <<>>
    /\ out = <<>>
    /\ returned = <<>>

\* a text of at most MaxSents sentences and MaxWords words of the lexicon
Init ==
    \E n \in 0..MaxWords : \E ws \in [1..n -> Lexicon] : \E c \in Cuts(n) :
        Start(Split(ws, c))

\* a text of one word of at most MaxLen letters
InitWord ==
    \E n \in 1..MaxLen : \E word \in [1..n -> Letters] :
        Start(<< <<word>> >>)

\* line 296; the IndexError of line 104 is not caught anywhere
MakeSyllables ==
    /\ pc = "tokens"
    /\ IF TextRaises(tokens)
       THEN pc' = "IndexError" /\ sylls' = sylls
       ELSE pc' = "syllables" /\ sylls' = make_syllables(tokens)
    /\ UNCHANGED <<returned, tokens, si, wi, compared, condensed, out>>

\* line 297
QuFix ==
    /\ pc = "syllables"
    /\ sylls' = qu_fix(sylls)
    /\ pc' = "qu_fixed"
    /\ UNCHANGED <<returned, tokens, si, wi, compared, condensed, out>>

\* line 298: elision_fixer is entered, `for sent in sent_syllables` begins
ElisionFixer ==
    /\ pc = "qu_fixed"
    /\ pc' = "eliding"
    /\ si' = 1
    /\ wi' = 1
    /\ compared' = [s \in 1..Len(sylls) |-> <<>>]
    /\ UNCHANGED <<returned, tokens, sylls, condensed, out>>

\* one visit of `for word in sent`, lines 191-200
ElideWord ==
    /\ pc = "eliding"
    /\ si <= Len(sylls)
    /\ wi <= Len(sylls[si])
    /\ LET sent == sylls[si] IN
       /\ compared' = IF ElideCompares(sent, wi)
                      THEN [compared EXCEPT ![si] =
                               Append(@, <<wi, NextWordIndex(sent, wi)>>)]
                      ELSE compared
       /\ IF ElideRaises(sent, wi)
          THEN /\ si' = si + 1                              \* break
               /\ wi' = 1
               /\ sylls' = sylls
          ELSE /\ si' = si
               /\ wi' = wi + 1
               /\ sylls' = IF ElideMerges(sent, wi)
                           THEN [sylls EXCEPT ![si] = ElideMerge(sent, wi)]
                           ELSE sylls
    /\ UNCHANGED <<returned, tokens, pc, condensed, out>>

\* `for word in sent` is exhausted without a break
ElideNextSent ==
    /\ pc = "eliding"
    /\ si <= Len(sylls)
    /\ wi > Len(sylls[si])
    /\ si' = si + 1
    /\ wi' = 1
    /\ UNCHANGED <<returned, tokens, pc, sylls, compared, condensed, out>>

\* line 201
ElisionReturn ==
    /\ pc = "eliding"
    /\ si > Len(sylls)
    /\ pc' = "elided"
    /\ UNCHANGED <<returned, tokens, sylls, si, wi, compared, condensed, out>>

\* line 305
SyllableCondenser ==
    /\ pc = "elided"
    /\ condensed' = syllable_condenser(sylls)
    /\ pc' = "condensed"
    /\ UNCHANGED <<returned, tokens, sylls, si, wi, compared, out>>

\* line 306
Scansion ==
    /\ pc = "condensed"
    /\ out' = scansion(condensed)
    /\ pc' = "scanned"
    /\ UNCHANGED <<returned, tokens, sylls, si, wi, compared, condensed>>

Next ==
    \/ MakeSyllables
    \/ QuFix
    \/ ElisionFixer
    \/ ElideWord
    \/ ElideNextSent
    \/ ElisionReturn
    \/ SyllableCondenser
    \/ Scansion

Spec == Init /\ [][Next]_vars

\* the pipeline is called again on the same tokens: syllabify builds its
\* lists anew from the word strings, and the old ones are left behind
Rerun ==
    /\ pc = "scanned"
    /\ returned = <<>>
    /\ returned' = Append(returned, out)
    /\ pc' = "tokens"
    /\ UNCHANGED <<tokens, sylls, si, wi, compared, condensed, out>>

NextTwice ==
    \/ MakeSyllables
    \/ QuFix
    \/ ElisionFixer
    \/ ElideWord
    \/ ElideNextSent
    \/ ElisionReturn
    \/ SyllableCondenser
    \/ Scansion
    \/ Rerun

\* one tokenized sentence of at most MaxWords words
InitSentence ==
    \E n \in 0..MaxWords : \E ws \in [1..n -> Lexicon] : Start(<<ws>>)

SpecTwice == InitSentence /\ [][NextTwice]_vars

\* one word through make_syllables and qu_fix
NextWord ==
    \/ MakeSyllables
    \/ QuFix

SpecWord == InitWord /\ [][NextWord]_vars

----------------------------------------------------------------------------
(* Vocabulary of the properties *)

Vocalic == vowels \cup long_vowels

HasNucleus(word) == \E k \in 1..Len(word) : word[k] \in Vocalic

NoPeriod(word) == \A k \in 1..Len(word) : word[k] # "."

\* the number of nuclei of a string, diphthongs recognised greedily from the left
RECURSIVE Nuclei(_, _)
Nuclei(str, k) ==
    IF k > Len(str) THEN 0
    ELSE IF k < Len(str) /\ <<str[k], str[k + 1]>> \in diphthongs
    THEN 1 + Nuclei(str, k + 2)
    ELSE IF str[k] \in Vocalic THEN 1 + Nuclei(str, k + 1)
    ELSE Nuclei(str, k + 1)

AllWords(P(_)) ==
    \A s \in 1..Len(tokens) : \A w \in 1..Len(tokens[s]) : P(tokens[s][w])

----------------------------------------------------------------------------
(* Properties of make_syllables, checked under SpecWord *)

\* C1: for every word without a period that has a vowel, long vowel or
\* diphthong, make_syllables returns (it does not raise), it returns at least
\* one syllable, and the syllables concatenated in order are the word.
C1_SyllablesRebuildWord ==
    /\ (pc # "tokens" /\ AllWords(HasNucleus)) => pc # "IndexError"
    /\ pc = "syllables" =>
          \A s \in 1..Len(tokens) : \A w \in 1..Len(tokens[s]) :
              (NoPeriod(tokens[s][w]) /\ HasNucleus(tokens[s][w])) =>
                  /\ Len(sylls[s][w]) >= 1
                  /\ Join(sylls[s][w]) = tokens[s][w]

\* a word of two syllables or more, closed by consonants, has been syllabified
C1_Witness ==
    /\ pc = "syllables"
    /\ NoPeriod(tokens[1][1])
    /\ Len(sylls[1][1]) >= 2
    /\ Last(tokens[1][1]) \notin Vocalic
    /\ Join(sylls[1][1]) = tokens[1][1]

\* C2: in the output of make_syllables every syllable holds exactly one
\* nucleus, and every syllable but the last of its word ends on that nucleus
\* (so only the last one carries consonants after it).
C2_OneNucleusPerSyllable ==
    pc = "syllables" =>
        \A s \in 1..Len(sylls) : \A w \in 1..Len(sylls[s]) :
            \A i \in 1..Len(sylls[s][w]) :
                LET syll == sylls[s][w][i] IN
                /\ Nuclei(syll, 1) = 1
                /\ i < Len(sylls[s][w]) => Last(syll) \in Vocalic

\* a word with a diphthong and a long vowel, closed by a consonant
C2_Witness ==
    /\ pc = "syllables"
    /\ Len(sylls[1][1]) >= 2
    /\ \E i \in 1..Len(sylls[1][1]) : sylls[1][1][i] \in diphthongs
    /\ \E k \in 1..Len(tokens[1][1]) : tokens[1][1][k] \in long_vowels
    /\ Last(Last(sylls[1][1])) \notin Vocalic

----------------------------------------------------------------------------
(* Properties of the sentence pipeline, checked under Spec *)

\* what qu_fix(make_syllables(...)) gave for a word, before any elision
QuFixed(word) == QuFixWord(SyllabifyWord(word), 1)

EndsElidable(syll) ==
    \/ Last(syll) = "m"
    \/ Last(syll) \in Vocalic
    \/ Len(syll) >= 2 /\ <<syll[Len(syll) - 1], Last(syll)>> \in diphthongs

BeginsElidable(syll) ==
    \/ syll[1] = "h"
    \/ syll[1] \in Vocalic
    \/ <<syll[1], Last(syll)>> \in diphthongs

\* C3: in a sentence of two words elision_fixer merges exactly when the first
\* word ends elidably and the second begins elidably; a merge moves the first
\* word's last syllable in front of the second word's first syllable and
\* removes it from the first word; otherwise both words are unchanged.
C3_TwoWordElision ==
    pc = "elided" =>
        \A s \in 1..Len(tokens) :
            Len(tokens[s]) = 2 =>
                LET first == QuFixed(tokens[s][1])
                    second == QuFixed(tokens[s][2])
                IN  IF EndsElidable(Last(first)) /\ BeginsElidable(second[1])
                    THEN sylls[s] = <<Front(first),
                                      <<Last(first) \o second[1]>> \o Tail(second)>>
                    ELSE sylls[s] = <<first, second>>

quo == <<"q", "u", "o">>

usque == <<"u", "s", "q", "u", "e">>

C5_NeighbourComparedOnce ==
    /\ \A s \in 1..Len(compared) : \A k \in 1..Len(compared[s]) :
           compared[s][k] = <<k, k + 1>>
    /\ pc = "elided" =>
           \A s \in 1..Len(tokens) :
               Len(tokens[s]) >= 1 => Len(compared[s]) = Len(tokens[s]) - 1

\* C6: scansion returns one string per input sentence, in order, each with one
\* symbol per syllable of the condensed post-elision sentence, in syllable
\* order, and every symbol is "-" (long) or "u" (short).
C6_OneSymbolPerSyllable ==
    pc = "scanned" =>
        /\ Len(out) = Len(tokens)
        /\ \A s \in 1..Len(out) :
               /\ condensed[s] = Join(sylls[s])
               /\ Len(out[s]) = Len(condensed[s])
               /\ \A i \in 1..Len(out[s]) :
                      /\ out[s][i] \in {"-", "u"}
                      /\ out[s][i] = "-" <=>
                             \/ long_by_position(condensed[s][i], condensed[s])
                             \/ long_by_nature(condensed[s][i])

\* two sentences of different syllable counts, one of them after an elision,
\* have been scanned
C6_Witness ==
    /\ pc = "scanned"
    /\ Len(out) = 2
    /\ Len(out[1]) >= 2
    /\ Len(out[2]) >= 1
    /\ Len(out[1]) # Len(out[2])
    /\ \E w \in 1..Len(sylls[1]) : sylls[1][w] = <<>>
    /\ \E i \in 1..Len(out[1]) : out[1][i] = "-"
    /\ \E i \in 1..Len(out[1]) : out[1][i] = "u"

Distinct(sentence) ==
    \A i, j \in 1..Len(sentence) : i # j => sentence[i] # sentence[j]

TwoConsonantStart(syll) ==
    Len(syll) >= 2 /\ syll[1] \in sing_cons /\ syll[2] \in sing_cons

StopLiquidStart(syll) ==
    Len(syll) >= 2 /\ syll[1] \in stops /\ syll[2] \in liquids

\* C7: in a sentence of pairwise distinct syllables, a syllable is LONG
\* whenever the next syllable begins with two single consonants that are not
\* a stop followed by a liquid.
C7_TwoConsonantsLengthen ==
    pc = "scanned" =>
        \A s \in 1..Len(condensed) : \A i \in 1..(Len(condensed[s]) - 1) :
            (/\ Distinct(condensed[s])
             /\ TwoConsonantStart(condensed[s][i + 1])
             /\ ~StopLiquidStart(condensed[s][i + 1])) => out[s][i] = "-"

\* C8: a syllable whose next syllable begins with a stop followed by a liquid
\* is never made long by case 1 of long_by_position.
C8_StopLiquidNotCase1 ==
    pc = "scanned" =>
        \A s \in 1..Len(condensed) : \A i \in 1..(Len(condensed[s]) - 1) :
            StopLiquidStart(condensed[s][i + 1]) =>
                PositionRule(condensed[s][i], condensed[s]) # 1

\* C9: a syllable that contains a long-vowel character is LONG, wherever it
\* stands in its sentence.
C9_LongVowelIsLong ==
    pc = "scanned" =>
        \A s \in 1..Len(condensed) : \A i \in 1..Len(condensed[s]) :
            (\E k \in 1..Len(condensed[s][i]) : condensed[s][i][k] \in long_vowels)
                => out[s][i] = "-"

\* a long-vowel syllable with a successor that no case of long_by_position
\* makes long has been scanned
C9_Witness ==
    /\ pc = "scanned"
    /\ \E s \in 1..Len(condensed) : \E i \in 1..(Len(condensed[s]) - 1) :
           /\ \E k \in 1..Len(condensed[s][i]) : condensed[s][i][k] \in long_vowels
           /\ ~long_by_position(condensed[s][i], condensed[s])
           /\ out[s][i] = "-"

\* C10: the symbol at position i is the one an index-based lookup of the next
\* syllable, sentence[i + 1], gives.
C10_NextSyllableByPosition ==
    pc = "scanned" =>
        \A s \in 1..Len(condensed) : \A i \in 1..Len(condensed[s]) :
            LET sentence == condensed[s]
                by_position ==
                    /\ i < Len(sentence)
                    /\ PositionCase(sentence[i], sentence[i + 1]) # 0
            IN  out[s][i] = IF by_position \/ long_by_nature(sentence[i])
                            THEN "-" ELSE "u"

----------------------------------------------------------------------------
(* Further properties of scansion, checked under Spec *)

\* C11: the last syllable of a sentence is LONG exactly when it is long by
\* nature, and no case of long_by_position is applied to it.
C11_LastSyllableByNatureOnly ==
    pc = "scanned" =>
        \A s \in 1..Len(condensed) :
            Len(condensed[s]) >= 1 =>
                LET n == Len(condensed[s])
                    last == condensed[s][n]
                IN  /\ out[s][n] = "-" <=> long_by_nature(last)
                    /\ PositionRule(last, condensed[s]) = 0

----------------------------------------------------------------------------
(* Error handling, checked under Spec *)

\* C12: a word with no vowel, long vowel or diphthong does not abort the
\* pipeline with an index failure: the run goes on to the other words and
\* sentences.
C12_MalformedWordIsLocal ==
    (pc # "tokens" /\ ~AllWords(HasNucleus)) => pc # "IndexError"

----------------------------------------------------------------------------
(* Repeated calls, checked under SpecTwice *)

\* C13: a second run of the pipeline on the same tokens returns the symbol
\* strings the first run returned.
C13_SecondRunSameResult ==
    (pc = "scanned" /\ returned # <<>>) => out = returned[1]

\* a second run over a sentence with an elision has returned
C13_Witness ==
    /\ pc = "scanned"
    /\ returned # <<>>
    /\ \E s \in 1..Len(sylls) : \E w \in 1..Len(sylls[s]) : sylls[s][w] = <<>>
    /\ \E s \in 1..Len(out) : Len(out[s]) >= 2
    /\ out = returned[1]

----------------------------------------------------------------------------
(* qu_fix on one word, checked under SpecWord *)

EndsInQu(syllable) ==
    /\ Len(syllable) >= 2
    /\ syllable[Len(syllable) - 1] = "q"
    /\ syllable[Len(syllable)] = "u"

\* C14: after make_syllables and qu_fix no syllable that ends in "qu" is
\* followed by a separate syllable of its word.
C14_QuNotSplitFromVowel ==
    pc = "qu_fixed" =>
        \A s \in 1..Len(sylls) : \A w \in 1..Len(sylls[s]) :
            \A i \in 1..(Len(sylls[s][w]) - 1) : ~EndsInQu(sylls[s][w][i])

----------------------------------------------------------------------------
(* long_by_nature on the syllables the pipeline produces, checked under Spec *)

HasLongVowel(syllable) == \E k \in 1..Len(syllable) : syllable[k] \in long_vowels

\* a diphthong stands at positions k, k+1 of the syllable
DiphthongAt(syllable, k) ==
    /\ k + 1 <= Len(syllable)
    /\ <<syllable[k], syllable[k + 1]>> \in diphthongs

\* the two characters at k, k+1 are a whole run of non-consonant characters
WholeRunAt(syllable, k) ==
    /\ k = 1 \/ syllable[k - 1] \in sing_cons
    /\ k + 1 = Len(syllable) \/ syllable[k + 2] \in sing_cons

\* the two characters at k, k+1 are the syllable's only non-consonant characters
OnlyRunAt(syllable, k) ==
    \A j \in 1..Len(syllable) : j \in {k, k + 1} \/ syllable[j] \in sing_cons

\* C15: every condensed syllable that contains a diphthong is long by nature.
C15_DiphthongIsLong ==
    pc = "scanned" =>
        \A s \in 1..Len(condensed) : \A i \in 1..Len(condensed[s]) :
            (\E k \in 1..Len(condensed[s][i]) : DiphthongAt(condensed[s][i], k))
                => long_by_nature(condensed[s][i])

\* C16: a condensed syllable with no long-vowel character is long by nature
\* only if a contiguous run of its non-consonant characters is a diphthong, and
\* is long by nature if its only such run is a diphthong.
C16_ContiguousDiphthongOnly ==
    pc = "scanned" =>
        \A s \in 1..Len(condensed) : \A i \in 1..Len(condensed[s]) :
            LET syllable == condensed[s][i]
            IN  ~HasLongVowel(syllable) =>
                    /\ long_by_nature(syllable) =>
                            \E k \in 1..Len(syllable) :
                                DiphthongAt(syllable, k) /\ WholeRunAt(syllable, k)
                    /\ (\E k \in 1..Len(syllable) :
                            DiphthongAt(syllable, k) /\ OnlyRunAt(syllable, k))
                        => long_by_nature(syllable)

----------------------------------------------------------------------------
(* Conservation of the text, checked under Spec *)

\* C19: for sentences of words with a vowel each, the condensed syllables of
\* a sentence concatenate to the sentence's words concatenated in order.
C19_TextConserved ==
    (pc \in {"condensed", "scanned"} /\ AllWords(HasNucleus)) =>
        \A s \in 1..Len(condensed) : Join(condensed[s]) = Join(tokens[s])

----------------------------------------------------------------------------
(* Repeated syllables in one sentence, checked under Spec *)

\* the least position of the sentence holding the text found at position i
FirstOccurrence(sentence, i) ==
    CHOOSE f \in 1..i :
        /\ sentence[f] = sentence[i]
        /\ \A g \in 1..(f - 1) : sentence[g] # sentence[i]

\* the symbol of a syllable whose successor is the one after position f
SymbolWithSuccessorOf(sentence, syllable, f) ==
    IF \/ long_by_nature(syllable)
       \/ f < Len(sentence) /\ PositionCase(syllable, sentence[f + 1]) # 0
    THEN "-" ELSE "u"

----------------------------------------------------------------------------
(* The merges of qu_fix on one word, checked under SpecWord *)

\* the raw syllables from position k on, where each syllable containing "qu"
\* that has a successor is joined with it and the result is passed over
RECURSIVE MergedFrom(_, _)
MergedFrom(raw, k) ==
    IF k > Len(raw) THEN <<>>
    ELSE IF HasQu(raw[k]) /\ k < Len(raw)
    THEN <<raw[k] \o raw[k + 1]>> \o MergedFrom(raw, k + 2)
    ELSE <<raw[k]>> \o MergedFrom(raw, k + 1)

----------------------------------------------------------------------------
(* Sentences are processed apart, checked under Spec *)

\* a sentence's words after make_syllables and qu_fix
FreshSentence(words) == [w \in 1..Len(words) |-> QuFixed(words[w])]

\* the symbols of a sentence that is the whole text
ScannedAlone(words) == ScanSentence(Join(ElideSentence(FreshSentence(words), 1)))

\* C17: while elision_fixer is at one sentence the sentences behind it are
\* untouched and the ones before it are what eliding each by itself gives;
\* the symbols of every sentence are those it gets as the only sentence.
C17_SentencesApart ==
    /\ pc = "eliding" =>
           \A s \in 1..Len(sylls) :
               /\ s > si => sylls[s] = FreshSentence(tokens[s])
               /\ s < si => sylls[s] = ElideSentence(FreshSentence(tokens[s]), 1)
    /\ pc \in {"elided", "condensed", "scanned"} =>
           \A s \in 1..Len(sylls) :
               sylls[s] = ElideSentence(FreshSentence(tokens[s]), 1)
    /\ pc = "scanned" =>
           \A s \in 1..Len(out) : out[s] = ScannedAlone(tokens[s])

\* two sentences, the first with a merge, that share a syllable text are scanned
C17_Witness ==
    /\ pc = "scanned"
    /\ Len(tokens) = 2
    /\ sylls[1] # FreshSentence(tokens[1])
    /\ tokens[1] # tokens[2]
    /\ \E i \in 1..Len(condensed[1]) : \E j \in 1..Len(condensed[2]) :
           condensed[1][i] = condensed[2][j]

====
